---- MODULE Spec2Model ----
(***************************************************************************)
(* State-machine model of the TikTok caption service.                      *)
(*                                                                         *)
(* Two builds of the same service exist: the tikwm build (HTTP extraction  *)
(* provider) and the yt-dlp build (spawned external tool).  The variable   *)
(* `variant` fixes the build for a whole behaviour.  Every request is a    *)
(* process whose position `pc` is the await it is suspended at.            *)
(***************************************************************************)
EXTENDS Integers, Sequences, FiniteSets, TLC

\* ------------------------------------------------------------------ bounds
NumReq == 2          \* requests served one after another by one process
MaxNow == 2          \* the clock ticks one by one up to here, then stalls
NumVersions == 2     \* distinct byte contents the remote side may serve

\* ------------------------------------------------------- program constants
TranscribeTimeoutMs == 120000
T0 == 1              \* Date.now() at the first read: a positive epoch time

Req == 1..NumReq
Variants == {"tikwm", "ytdlp"}

\* ----------------------------------------------------------------- strings
\* A string is a sequence of tokens; a token stands for the characters
\* between its quotes.  "x" is any other run of characters.
UrlA == <<"http", "s", "://", "www.", "tiktok.com", "x">>
UrlB == <<"http", "://", "vm.", "tiktok.com", "x">>
UrlInputs ==
  { UrlA, UrlB,
    <<"x">>,                                   \* not-a-url
    << >>,                                     \* the empty string
    <<"http", "s", "://", "x", "tiktok.com">>, \* another host
    <<"x", "http", "://", "tiktok.com">> }     \* pattern not at the start

\* Request bodies: text that is not a JSON object, an object without url,
\* an object with a string url.
Bodies ==
  { [kind |-> "notObject", hasUrl |-> FALSE, url |-> << >>],
    [kind |-> "object", hasUrl |-> FALSE, url |-> << >>] }
  \cup { [kind |-> "object", hasUrl |-> TRUE, url |-> u] : u \in UrlInputs }

\* s with its first n tokens dropped
Drop(s, n) == SubSeq(s, n + 1, Len(s))

\* s starts with the tokens of p
StartsWith(s, p) == Len(s) >= Len(p) /\ SubSeq(s, 1, Len(p)) = p

\* /^https?:\/\/(www\.)?(tiktok\.com|vm\.tiktok\.com)/.test(s)
TIKTOK_URL_PATTERN(s) ==
  /\ StartsWith(s, <<"http">>)
  /\ LET a == Drop(s, 1)
         b == IF StartsWith(a, <<"s">>) THEN {Drop(a, 1), a} ELSE {a}
     IN \E c \in b :
          /\ StartsWith(c, <<"://">>)
          /\ LET d == Drop(c, 1)
                 e == IF StartsWith(d, <<"www.">>) THEN {Drop(d, 1), d} ELSE {d}
             IN \E f \in e : \/ StartsWith(f, <<"tiktok.com">>)
                             \/ StartsWith(f, <<"vm.", "tiktok.com">>)

\* !url || !TIKTOK_URL_PATTERN.test(url)
InvalidUrl(body) ==
  \/ ~body.hasUrl
  \/ body.url = << >>
  \/ ~TIKTOK_URL_PATTERN(body.url)


ValidUrls == { u \in UrlInputs : TIKTOK_URL_PATTERN(u) }

\* ------------------------------------------------------------------- cache
TokenCode(t) ==
  CASE t = "http" -> 1 [] t = "s" -> 2 [] t = "://" -> 3 [] t = "www." -> 4
    [] t = "tiktok.com" -> 5 [] t = "vm." -> 6 [] OTHER -> 7

\* createHash('sha256').update(url).digest('hex'): a digest of the raw
\* string, token by token; no normalisation of the string.  The digest is
\* modelled as collision-free on the strings of the model.
RECURSIVE getCacheKey(_)
getCacheKey(url) ==
  IF url = << >> THEN 0 ELSE TokenCode(Head(url)) + 8 * getCacheKey(Tail(url))

\* (mutant: one extension for both modes)
ExtensionFixed(audioOnly) == "mp4"

\* audioOnly ? 'mp3' : 'mp4'
Extension(audioOnly) == IF audioOnly THEN "mp3" ELSE "mp4"

\* join(CACHE_DIR, `${cacheKey}.${extension}`)
CachedFile(url, audioOnly) == <<getCacheKey(url), Extension(audioOnly)>>

CacheFiles == { CachedFile(u, a) : u \in ValidUrls, a \in BOOLEAN }

NoFile == [exists |-> FALSE, data |-> << >>]

\* ------------------------------------------------------------------- media
\* What the remote side serves for a url: two chunks of one version.  A
\* chunk carries the url and kind it belongs to, so bytes of different
\* downloads can be told apart.
Chunk(url, kind, v) == [u |-> getCacheKey(url), kind |-> kind, v |-> v]
Content(url, kind, v) == <<Chunk(url, kind, v), Chunk(url, kind, v)>>
Hole == [u |-> 0, kind |-> "zero", v |-> 0]

\* pwrite of one chunk at position p (1-based) of a file: a write past the
\* end leaves a hole of zero bytes.
RECURSIVE Holes(_)
Holes(n) == IF n <= 0 THEN << >> ELSE <<Hole>> \o Holes(n - 1)
WriteAt(data, p, c) ==
  IF p <= Len(data) THEN [data EXCEPT ![p] = c]
  ELSE data \o Holes(p - 1 - Len(data)) \o <<c>>

\* --------------------------------------------------------------- metadata
Candidates == {"hdplay", "play", "wmplay", "music"}
Durations == {0, 30}

\* (mutant: the standard URL is preferred to the high-definition one)
ChooseStandardFirst(info, audioOnly) ==
  IF audioOnly THEN (IF "music" \in info THEN "music" ELSE "")
  ELSE IF "play" \in info THEN "play"
  ELSE IF "hdplay" \in info THEN "hdplay"
  ELSE IF "wmplay" \in info THEN "wmplay"
  ELSE ""

\* downloadMedia: audioOnly ? videoInfo.music
\*                          : videoInfo.hdplay || videoInfo.play || videoInfo.wmplay
\* info is the set of fields that hold a non-empty URL; "" is "no URL".
ChooseDownloadUrl(info, audioOnly) ==
  IF audioOnly THEN (IF "music" \in info THEN "music" ELSE "")
  ELSE IF "hdplay" \in info THEN "hdplay"
  ELSE IF "play" \in info THEN "play"
  ELSE IF "wmplay" \in info THEN "wmplay"
  ELSE ""

\* /download: info.hdplay || info.play || info.wmplay; hq && info.hdplay
\* picks hdplay again.
ChooseRedirectUrl(info, hq) ==
  LET first == IF "hdplay" \in info THEN "hdplay"
               ELSE IF "play" \in info THEN "play"
               ELSE IF "wmplay" \in info THEN "wmplay"
               ELSE ""
  IN IF hq /\ "hdplay" \in info THEN "hdplay" ELSE first

\* The URL fields of the metadata: tikwm's four, the one `url` of yt-dlp's
\* JSON (which is cast to YtDlpInfo without a check, so it may be missing).
InfoFields(v) == IF v = "tikwm" THEN Candidates ELSE {"url"}

\* yt-dlp /download: c.redirect(info.url).  A missing url is the value
\* undefined, which the Location header takes as the string "undefined".
YtDlpRedirectUrl(info) == IF "url" \in info THEN "url" ELSE "undefined"

\* ------------------------------------------------------------------ errors
\* (mutant: the error is thrown on as it came, keeping its name)
RethrowSame(inner) == inner

\* getVideoInfo and downloadMedia catch whatever was thrown and throw
\* new Error(...): the name of the error that leaves them is "Error".
Rethrow(inner) == "Error"

\* Names of what a fetch without a signal can throw: a network failure, or
\* the transport's own default timeout.
TransportErrors == {"TypeError", "TimeoutError"}

\* ----------------------------------------------------------------- numbers
\* a / b in IEEE arithmetic, then toFixed: a finite number, "Infinity" or
\* "NaN".  Division never traps.
Quot(a, b) ==
  IF b # 0 THEN [k |-> "finite", n |-> a, d |-> b]
  ELSE IF a = 0 THEN [k |-> "NaN", n |-> a, d |-> b]
  ELSE [k |-> "Infinity", n |-> a, d |-> b]


\* ------------------------------------------------------------------- state
VARIABLES
  variant,   \* which build runs: "tikwm" or "ytdlp"
  now,       \* the wall clock, what Date.now() returns
  req,       \* per request: its inputs, locals, position and response
  cacheDir,  \* whether CACHE_DIR exists
  cache,     \* the files of CACHE_DIR, by <<key, extension>>
  tmp,       \* the files of /tmp written by yt-dlp, by <<timestamp, extension>>
  lastFetch, \* history: per cache file, the last downloadMedia that returned
  clockStop  \* the model's clock ticks up to here and stalls afterwards

vars == <<variant, now, req, cacheDir, cache, tmp, lastFetch, clockStop>>

ZeroTiming ==
  [start |-> 0, metadataStart |-> 0, metadataEnd |-> 0, downloadStart |-> 0,
   downloadEnd |-> 0, transcribeStart |-> 0, transcribeEnd |-> 0, total |-> 0]

NoQuot == [k |-> "none", n |-> 0, d |-> 0]

NoResp ==
  [status |-> 0, hasError |-> FALSE, hasDetails |-> FALSE, hasDebug |-> FALSE,
   failedAt |-> "none", location |-> "",
   times |-> [total |-> 0, metadata |-> 0, download |-> 0, transcription |-> 0],
   downloadSpeed |-> NoQuot, transcriptionSpeed |-> NoQuot,
   metadataFetch |-> NoQuot, mediaDownload |-> NoQuot, transcription |-> NoQuot]

NoPrev == [any |-> FALSE, bytes |-> << >>, inCache |-> FALSE]

InitReq ==
  [pc |-> "idle", endpoint |-> "none", body |-> "none", url |-> << >>,
   audioOnly |-> FALSE, debug |-> FALSE, hq |-> FALSE,
   timing |-> ZeroTiming, duration |-> 0,
   buffer |-> << >>, cached |-> FALSE, fetched |-> FALSE,
   info |-> {}, downloadUrl |-> "", wpos |-> 0, timestamp |-> 0,
   calls |-> [extract |-> 0, download |-> 0, whisper |-> 0, cache |-> 0],
   \* history of the request, read by the properties only
   seen |-> NoFile, checkErr |-> "none", readData |-> << >>,
   wrote |-> "none", prev |-> NoPrev,
   failStage |-> "none", failKind |-> "none", errName |-> "none",
   resp |-> NoResp]

\* The cache outlives the process: when the process starts, CACHE_DIR may
\* be missing, or hold a file an earlier run left, whole or cut short by a
\* failed write.
PriorKind(v, audioOnly) ==
  IF v = "tikwm" THEN (IF audioOnly THEN "music" ELSE "play")
  ELSE (IF audioOnly THEN "audio" ELSE "video")

PriorCaches(v) ==
  { [f \in CacheFiles |-> NoFile] }
  \cup { [f \in CacheFiles |->
            IF f = CachedFile(UrlA, a)
            THEN [exists |-> TRUE,
                  data |-> SubSeq(Content(UrlA, PriorKind(v, a), 1), 1, n)]
            ELSE NoFile] : a \in BOOLEAN, n \in 0..2 }

EmptyCache == [f \in CacheFiles |-> NoFile]

\* One request of a process that starts on whatever an earlier run left.
Init ==
  /\ variant \in Variants
  /\ now = T0
  /\ req = [r \in Req |-> InitReq]
  /\ cache \in PriorCaches(variant)
  /\ cacheDir \in BOOLEAN
  /\ cache # EmptyCache => cacheDir
  /\ tmp = << >>
  /\ lastFetch = [f \in CacheFiles |-> NoPrev]
  /\ clockStop = MaxNow

\* What a later Date.now() may return after one that returned t: the same
\* millisecond or the next one (the clock of the model stalls at clockStop).
Ticks(t) == IF t < clockStop THEN {t, t + 1} ELSE {t}

Max(a, b) == IF a >= b THEN a ELSE b

\* -------------------------------------------------------------- responses
\* c.json({ error: 'Invalid or missing TikTok URL.' }, 400)
RespondInvalid(q) ==
  [q EXCEPT !.pc = "done", !.resp.status = 400, !.resp.hasError = TRUE]

\* The handler threw outside its try block: the framework answers 500.
RespondUnhandled(q) ==
  [q EXCEPT !.pc = "done", !.resp.status = 500, !.failStage = "parse",
            !.failKind = "unhandled"]

\* timing.transcribeStart > 0 ? 'transcription'
\*   : timing.downloadStart > 0 ? 'download' : 'metadata'
FailedAt(timing) ==
  IF timing.transcribeStart > 0 THEN "transcription"
  ELSE IF timing.downloadStart > 0 THEN "download"
  ELSE "metadata"

\* (mutant: the durations are subtracted without looking at the fields)
PartialTimingUnguarded(timing, errorTime) ==
  [total |-> errorTime - timing.start,
   metadata |-> timing.metadataEnd - timing.metadataStart,
   download |-> timing.downloadEnd - timing.downloadStart,
   transcription |-> errorTime - timing.transcribeStart]

\* partialTiming of the catch block
PartialTiming(timing, errorTime) ==
  [total |-> errorTime - timing.start,
   metadata |-> IF timing.metadataEnd > 0
                THEN timing.metadataEnd - timing.metadataStart ELSE 0,
   download |-> IF timing.downloadEnd > 0
                THEN timing.downloadEnd - timing.downloadStart ELSE 0,
   transcription |-> IF timing.transcribeStart > 0
                     THEN errorTime - timing.transcribeStart ELSE 0]

\* The body of a 408 answer: error, details and, with debug, the partial
\* timing and failedAt.
TimeoutBody(q, errorTime) ==
  [q.resp EXCEPT !.status = 408, !.hasError = TRUE, !.hasDetails = TRUE,
                 !.hasDebug = q.debug,
                 !.times = IF q.debug THEN PartialTiming(q.timing, errorTime)
                           ELSE @,
                 !.failedAt = IF q.debug THEN FailedAt(q.timing) ELSE @]

\* c.json({ error: 'An internal server error occurred.' }, 500)
InternalErrorBody(q, errorTime) ==
  [q.resp EXCEPT !.status = 500, !.hasError = TRUE]

\* (mutant: the catch block answers 500 whatever the error is named)
CaptionCatchAll500(q, name, errorTime) ==
  [q EXCEPT !.pc = "done", !.errName = name,
            !.resp = InternalErrorBody(q, errorTime)]

\* The catch block of /caption: 408 for an error named TimeoutError or
\* AbortError, 500 for any other.
CaptionCatch(q, name, errorTime) ==
  [q EXCEPT !.pc = "done", !.errName = name,
            !.resp = IF name \in {"TimeoutError", "AbortError"}
                     THEN TimeoutBody(q, errorTime)
                     ELSE InternalErrorBody(q, errorTime)]

\* if (!whisperResponse.ok) return c.json({ error, details: errorBody }, 500)
WhisperNotOkBody(q) ==
  [q.resp EXCEPT !.status = 500, !.hasError = TRUE, !.hasDetails = TRUE]

\* The 200 answer of /caption; with debug, the timing block.
SuccessBody(q, timing) ==
  LET total == timing.transcribeEnd - timing.start
      metadataTime == timing.metadataEnd - timing.metadataStart
      downloadTime == timing.downloadEnd - timing.downloadStart
      transcribeTime == timing.transcribeEnd - timing.transcribeStart
  IN IF ~q.debug THEN [q.resp EXCEPT !.status = 200]
     ELSE [q.resp EXCEPT
             !.status = 200, !.hasDebug = TRUE,
             !.times = [total |-> total, metadata |-> metadataTime,
                        download |-> downloadTime,
                        transcription |-> transcribeTime],
             !.downloadSpeed = Quot(Len(q.buffer), downloadTime),
             !.transcriptionSpeed = Quot(q.duration, transcribeTime),
             !.metadataFetch = Quot(metadataTime, total),
             !.mediaDownload = Quot(downloadTime, total),
             !.transcription = Quot(transcribeTime, total)]


\* ------------------------------------------------------- handler fragments
Put(r, q) == req' = [req EXCEPT ![r] = q]

\* history: the stage a failure arose in, and its cause
Fail(q, stage, kind) == [q EXCEPT !.failStage = stage, !.failKind = kind]

\* const { url } = await c.req.json(): the body kind and url as received
Received(q, ep, body) ==
  [q EXCEPT !.endpoint = ep,
            !.body = IF body.kind # "object" THEN "notObject"
                     ELSE IF body.hasUrl THEN "url" ELSE "noUrl",
            !.url = body.url]

\* (mutant: the worker is called as soon as the request is validated)
CaptionBeginEager(q, audioOnly, debug, t1, t2) ==
  [q EXCEPT !.audioOnly = audioOnly, !.debug = debug,
            !.timing.start = t1, !.timing.metadataStart = t2,
            !.calls.extract = @ + 1, !.calls.whisper = @ + 1,
            !.pc = "metadata"]

\* /caption after validation: timing.start, timing.metadataStart, then the
\* call of getVideoInfo.
CaptionBegin(q, audioOnly, debug, t1, t2) ==
  [q EXCEPT !.audioOnly = audioOnly, !.debug = debug,
            !.timing.start = t1, !.timing.metadataStart = t2,
            !.calls.extract = @ + 1, !.pc = "metadata"]

\* /download after validation: the call of getVideoInfo.
DownloadBegin(q, hq) ==
  [q EXCEPT !.hq = hq, !.calls.extract = @ + 1, !.pc = "dlInfo"]

\* (mutant: the two clock reads are stored the other way round)
CaptionGotMetadataSwapped(q, duration, t1, t2, prev) ==
  [q EXCEPT !.duration = duration,
            !.timing.metadataEnd = t2, !.timing.downloadStart = t1,
            !.prev = prev, !.pc = "initCache"]

\* getVideoInfo returned: timing.metadataEnd, timing.downloadStart, then
\* downloadMedia begins with initCacheDir.
CaptionGotMetadata(q, duration, t1, t2, prev) ==
  [q EXCEPT !.duration = duration,
            !.timing.metadataEnd = t1, !.timing.downloadStart = t2,
            !.prev = prev, !.pc = "initCache"]

\* The cache check failed or found nothing: the download begins.  tikwm
\* asks the provider for the media URLs; yt-dlp is spawned with an output
\* template named after Date.now().
MissPath(v, q, t) ==
  IF v = "tikwm"
  THEN [q EXCEPT !.pc = "dmInfo", !.calls.extract = @ + 1]
  ELSE [q EXCEPT !.pc = "ytdlp", !.timestamp = t, !.calls.download = @ + 1]

\* (mutant: the existence check never finds the file)
AfterAccessNeverFound(v, q, file, err, t) ==
  MissPath(v, [q EXCEPT !.seen = file, !.calls.cache = @ + 1], t)

\* await access(cachedFile): an existing, accessible file goes on to
\* readFile; anything thrown is caught and taken for a miss.
AfterAccess(v, q, file, err, t) ==
  LET q1 == [q EXCEPT !.seen = file, !.calls.cache = @ + 1,
                      !.checkErr = IF file.exists /\ err THEN "access" ELSE @]
  IN IF file.exists /\ ~err THEN [q1 EXCEPT !.pc = "cacheRead"]
     ELSE MissPath(v, q1, t)

\* downloadMedia returned to /caption: timing.downloadEnd,
\* timing.transcribeStart, then the fetch of the Whisper worker.
FetchReturn(q, cached, t1, t2) ==
  [q EXCEPT !.cached = cached, !.fetched = TRUE,
            !.timing.downloadEnd = t1, !.timing.transcribeStart = t2,
            !.calls.whisper = @ + 1, !.pc = "transcribe"]

\* (mutant: a hit is reported as a fresh download)
AfterReadNotCached(v, q, file, err, t1, t2) ==
  LET q1 == [q EXCEPT !.calls.cache = @ + 1]
  IN IF ~err
     THEN FetchReturn([q1 EXCEPT !.buffer = file.data, !.readData = file.data],
                      FALSE, t1, t2)
     ELSE MissPath(v, [q1 EXCEPT !.checkErr = "read"], t1)

\* const buffer = await readFile(cachedFile): the bytes of the file, or a
\* throw that is caught and taken for a miss.
AfterRead(v, q, file, err, t1, t2) ==
  LET q1 == [q EXCEPT !.calls.cache = @ + 1]
  IN IF ~err
     THEN FetchReturn([q1 EXCEPT !.buffer = file.data, !.readData = file.data],
                      TRUE, t1, t2)
     ELSE MissPath(v, [q1 EXCEPT !.checkErr = "read"], t1)

\* (mutant: a failed write is thrown on instead of being swallowed)
AfterWriteThrows(v, q, outcome, t1, t2) ==
  IF outcome = "failed"
  THEN CaptionCatch(Fail([q EXCEPT !.wrote = outcome], "download", "fs"),
                    "Error", t1)
  ELSE IF v = "tikwm"
  THEN FetchReturn([q EXCEPT !.wrote = outcome], FALSE, t1, t2)
  ELSE [q EXCEPT !.wrote = outcome, !.pc = "tmpUnlink"]

\* What the write leaves behind when it is over, well or not: tikwm
\* returns the downloaded bytes, yt-dlp first unlinks its temporary file.
AfterWrite(v, q, outcome, t1, t2) ==
  IF v = "tikwm"
  THEN FetchReturn([q EXCEPT !.wrote = outcome], FALSE, t1, t2)
  ELSE [q EXCEPT !.wrote = outcome, !.pc = "tmpUnlink"]

TmpName(q) == <<q.timestamp, Extension(q.audioOnly)>>
TmpPut(files, name, data) ==
  [x \in DOMAIN files \cup {name} |-> IF x = name THEN data ELSE files[x]]
TmpRemove(files, name) == [x \in DOMAIN files \ {name} |-> files[x]]

KeyOf(q) == CachedFile(q.url, q.audioOnly)

\* The history entry a returning downloadMedia leaves for its cache file.
Returned(q) ==
  [any |-> TRUE, bytes |-> q.buffer, inCache |-> q.cached \/ q.wrote = "ok"]


\* ----------------------------------------------------------------- actions
\* Requests are numbered in the order they arrive; a request arrives when
\* the one before it is over (its position is in `over`).
MayStart(r, over) ==
  /\ req[r].pc = "idle"
  /\ \A p \in Req : p < r => req[p].pc \in over \cup {"gone"}

\* A request that is over is followed no further.
Gone == [InitReq EXCEPT !.pc = "gone"]
Arrive(r, q, over) ==
  req' = [p \in Req |-> IF p = r THEN q
                        ELSE IF req[p].pc \in over THEN Gone ELSE req[p]]

\* app.post('/caption'): parse, validate, begin the metadata stage.
CaptionArrives(r, bodies, debugs, over) ==
  /\ MayStart(r, over)
  /\ \E body \in bodies, audioOnly \in BOOLEAN, debug \in debugs :
       LET q == Received(req[r], "caption", body)
       IN IF body.kind # "object"
          THEN Arrive(r, RespondUnhandled(q), over) /\ now' = now
          ELSE IF InvalidUrl(body)
          THEN Arrive(r, RespondInvalid(q), over) /\ now' = now
          ELSE \E t1 \in Ticks(now) : \E t2 \in Ticks(t1) :
                 /\ Arrive(r, CaptionBegin(q, audioOnly, debug, t1, t2), over)
                 /\ now' = t2
  /\ UNCHANGED <<variant, cacheDir, cache, tmp, lastFetch, clockStop>>

StartCaption(r) == CaptionArrives(r, Bodies, BOOLEAN, {"done"})

\* app.post('/download'): parse, validate, ask for the metadata.
StartDownload(r) ==
  /\ MayStart(r, {"done"})
  /\ \E body \in Bodies, hq \in BOOLEAN :
       LET q == Received(req[r], "download", body)
       IN IF body.kind # "object" THEN Arrive(r, RespondUnhandled(q), {"done"})
          ELSE IF InvalidUrl(body) THEN Arrive(r, RespondInvalid(q), {"done"})
          ELSE Arrive(r, DownloadBegin(q, hq), {"done"})
  /\ UNCHANGED <<variant, now, cacheDir, cache, tmp, lastFetch, clockStop>>

\* /caption: getVideoInfo resolves, with a duration among `durations`.
MetadataResolves(r, durations) ==
  /\ req[r].pc = "metadata"
  /\ \E d \in durations : \E t1 \in Ticks(now) : \E t2 \in Ticks(t1) :
       /\ Put(r, CaptionGotMetadata(req[r], d, t1, t2, lastFetch[KeyOf(req[r])]))
       /\ now' = t2
  /\ UNCHANGED <<variant, cacheDir, cache, tmp, lastFetch, clockStop>>

MetadataOk(r) == MetadataResolves(r, Durations)

\* /caption: getVideoInfo throws (provider unreachable, non-success
\* status or code, unparsable answer, tool failure).
MetadataFail(r) ==
  /\ req[r].pc = "metadata"
  /\ \E inner \in TransportErrors \cup {"Error", "SyntaxError"} :
     \E t \in Ticks(now) :
       /\ Put(r, CaptionCatch(Fail(req[r], "metadata", "extraction"),
                              Rethrow(inner), t))
       /\ now' = t
  /\ UNCHANGED <<variant, cacheDir, cache, tmp, lastFetch, clockStop>>

\* initCacheDir: CACHE_DIR exists or is created.
InitCacheDirOk(r) ==
  /\ req[r].pc = "initCache"
  /\ Put(r, [req[r] EXCEPT !.calls.cache = @ + 1, !.pc = "cacheAccess"])
  /\ cacheDir' = TRUE
  /\ UNCHANGED <<variant, now, cache, tmp, lastFetch, clockStop>>

\* initCacheDir: CACHE_DIR cannot be created; mkdir throws.
InitCacheDirFail(r) ==
  /\ req[r].pc = "initCache"
  /\ ~cacheDir
  /\ \E t \in Ticks(now) :
       /\ Put(r, CaptionCatch(Fail([req[r] EXCEPT !.calls.cache = @ + 1],
                                   "download", "fs"), "Error", t))
       /\ now' = t
  /\ UNCHANGED <<variant, cacheDir, cache, tmp, lastFetch, clockStop>>

\* downloadMedia: await access(cachedFile).
CacheAccess(r) ==
  /\ req[r].pc = "cacheAccess"
  /\ \E err \in BOOLEAN : \E t \in Ticks(now) :
       /\ (variant = "tikwm" \/ (cache[KeyOf(req[r])].exists /\ ~err)) => t = now
       /\ ~cache[KeyOf(req[r])].exists => ~err
       /\ Put(r, AfterAccess(variant, req[r], cache[KeyOf(req[r])], err, t))
       /\ now' = t
  /\ UNCHANGED <<variant, cacheDir, cache, tmp, lastFetch, clockStop>>

\* downloadMedia: await readFile(cachedFile).
CacheRead(r) ==
  /\ req[r].pc = "cacheRead"
  /\ \E err \in BOOLEAN : \E t1 \in Ticks(now) : \E t2 \in Ticks(t1) :
       LET q == AfterRead(variant, req[r], cache[KeyOf(req[r])], err, t1, t2)
       IN /\ err => t2 = t1 /\ (variant = "tikwm" => t1 = now)
          /\ Put(r, q)
          /\ now' = t2
          /\ lastFetch' = IF q.fetched
                          THEN [lastFetch EXCEPT ![KeyOf(q)] = Returned(q)]
                          ELSE lastFetch
  /\ UNCHANGED <<variant, cacheDir, cache, tmp, clockStop>>


\* tikwm downloadMedia: getVideoInfo resolves; the download URL is chosen
\* and fetched, or none exists and the function throws.
DmInfoOk(r) ==
  /\ variant = "tikwm"
  /\ req[r].pc = "dmInfo"
  /\ \E info \in SUBSET Candidates : \E t \in Ticks(now) :
       LET q == [req[r] EXCEPT !.info = info,
                               !.downloadUrl = ChooseDownloadUrl(info, req[r].audioOnly)]
       IN IF q.downloadUrl = ""
          THEN /\ Put(r, CaptionCatch(Fail(q, "download", "noUrl"),
                                      Rethrow("Error"), t))
               /\ now' = t
          ELSE /\ Put(r, [q EXCEPT !.calls.download = @ + 1, !.pc = "dmFetch"])
               /\ now' = now
               /\ t = now
  /\ UNCHANGED <<variant, cacheDir, cache, tmp, lastFetch, clockStop>>

\* tikwm downloadMedia: getVideoInfo throws.
DmInfoFail(r) ==
  /\ variant = "tikwm"
  /\ req[r].pc = "dmInfo"
  /\ \E inner \in TransportErrors \cup {"Error", "SyntaxError"} :
     \E t \in Ticks(now) :
       /\ Put(r, CaptionCatch(Fail(req[r], "download", "extraction"),
                              Rethrow(Rethrow(inner)), t))
       /\ now' = t
  /\ UNCHANGED <<variant, cacheDir, cache, tmp, lastFetch, clockStop>>

\* tikwm downloadMedia: the media answers with a success status and its
\* body is read; the write to the cache begins.
DmFetchOk(r) ==
  /\ variant = "tikwm"
  /\ req[r].pc = "dmFetch"
  /\ \E v \in 1..NumVersions :
       Put(r, [req[r] EXCEPT
                 !.buffer = Content(req[r].url, req[r].downloadUrl, v),
                 !.info = {}, !.pc = "cacheWrite"])
  /\ UNCHANGED <<variant, now, cacheDir, cache, tmp, lastFetch, clockStop>>

\* tikwm downloadMedia: the fetch of the media throws, or answers with a
\* non-success status.
DmFetchFail(r) ==
  /\ variant = "tikwm"
  /\ req[r].pc = "dmFetch"
  /\ \E inner \in TransportErrors \cup {"Error"} : \E t \in Ticks(now) :
       /\ Put(r, CaptionCatch(
                   Fail([req[r] EXCEPT !.info = {}], "download",
                        IF inner = "Error" THEN "notOk" ELSE "transport"),
                   Rethrow(inner), t))
       /\ now' = t
  /\ UNCHANGED <<variant, cacheDir, cache, tmp, lastFetch, clockStop>>

\* yt-dlp downloadMedia: the tool exits with code 0.  It has written its
\* output file, unless a file of that name was there and it kept it, or
\* its output went to a file of another name.
YtDlpExitOk(r) ==
  /\ variant = "ytdlp"
  /\ req[r].pc = "ytdlp"
  /\ \E v \in 1..NumVersions : \E written \in BOOLEAN :
       LET kind == IF req[r].audioOnly THEN "audio" ELSE "video"
       IN tmp' = IF written
                 THEN TmpPut(tmp, TmpName(req[r]), Content(req[r].url, kind, v))
                 ELSE tmp
  /\ Put(r, [req[r] EXCEPT !.pc = "tmpRead"])
  /\ UNCHANGED <<variant, now, cacheDir, cache, lastFetch, clockStop>>

\* yt-dlp downloadMedia: the tool cannot be spawned or exits with another
\* code.
YtDlpExitFail(r) ==
  /\ variant = "ytdlp"
  /\ req[r].pc = "ytdlp"
  /\ \E t \in Ticks(now) :
       /\ Put(r, CaptionCatch(Fail(req[r], "download", "tool"), "Error", t))
       /\ now' = t
  /\ UNCHANGED <<variant, cacheDir, cache, tmp, lastFetch, clockStop>>

\* yt-dlp downloadMedia: fs.readFile(expectedFile) in the close handler.
TmpRead(r) ==
  /\ variant = "ytdlp"
  /\ req[r].pc = "tmpRead"
  /\ \E err \in BOOLEAN : \E t \in Ticks(now) :
       IF TmpName(req[r]) \in DOMAIN tmp /\ ~err
       THEN /\ Put(r, [req[r] EXCEPT !.buffer = tmp[TmpName(req[r])],
                                     !.pc = "cacheWrite"])
            /\ now' = now
            /\ t = now
       ELSE /\ Put(r, CaptionCatch(Fail(req[r], "download", "fs"), "Error", t))
            /\ now' = t
  /\ UNCHANGED <<variant, cacheDir, cache, tmp, lastFetch, clockStop>>

\* writeFile(cachedFile, buffer), its first step: the file is opened and
\* truncated, or the open fails and the failure is swallowed.
CacheWriteOpen(r) ==
  /\ req[r].pc = "cacheWrite"
  /\ \E ok \in BOOLEAN : \E t1 \in Ticks(now) : \E t2 \in Ticks(t1) :
       LET q0 == [req[r] EXCEPT !.calls.cache = @ + 1, !.wpos = 0]
           q == IF ok THEN [q0 EXCEPT !.pc = "cacheWriting"]
                ELSE AfterWrite(variant, q0, "failed", t1, t2)
       IN /\ (ok \/ variant = "ytdlp") => (t1 = now /\ t2 = now)
          /\ Put(r, q)
          /\ now' = t2
          /\ cache' = IF ok
                      THEN [cache EXCEPT ![KeyOf(q)] = [exists |-> TRUE, data |-> << >>]]
                      ELSE cache
          /\ lastFetch' = IF q.fetched
                          THEN [lastFetch EXCEPT ![KeyOf(q)] = Returned(q)]
                          ELSE lastFetch
  /\ UNCHANGED <<variant, cacheDir, tmp, clockStop>>

\* writeFile, one chunk: written at the writer's own position, or the
\* write fails and what was written so far stays.
CacheWriteChunk(r) ==
  /\ req[r].pc = "cacheWriting"
  /\ \E ok \in BOOLEAN : \E t1 \in Ticks(now) : \E t2 \in Ticks(t1) :
       LET p == req[r].wpos + 1
           last == p = Len(req[r].buffer)
           q == IF ok /\ ~last THEN [req[r] EXCEPT !.wpos = p]
                ELSE AfterWrite(variant, [req[r] EXCEPT !.wpos = IF ok THEN p ELSE @],
                                IF ok THEN "ok" ELSE "failed", t1, t2)
       IN /\ ((ok /\ ~last) \/ variant = "ytdlp") => (t1 = now /\ t2 = now)
          /\ Put(r, q)
          /\ now' = t2
          /\ cache' = IF ok
                      THEN [cache EXCEPT ![KeyOf(q)].data =
                              WriteAt(@, p, req[r].buffer[p])]
                      ELSE cache
          /\ lastFetch' = IF q.fetched
                          THEN [lastFetch EXCEPT ![KeyOf(q)] = Returned(q)]
                          ELSE lastFetch
  /\ UNCHANGED <<variant, cacheDir, tmp, clockStop>>

\* yt-dlp downloadMedia: unlink of the temporary file (errors ignored),
\* then the promise resolves.
TmpUnlink(r) ==
  /\ variant = "ytdlp"
  /\ req[r].pc = "tmpUnlink"
  /\ \E t1 \in Ticks(now) : \E t2 \in Ticks(t1) :
       LET q == FetchReturn(req[r], FALSE, t1, t2)
       IN /\ Put(r, q)
          /\ now' = t2
          /\ lastFetch' = [lastFetch EXCEPT ![KeyOf(q)] = Returned(q)]
  /\ tmp' = TmpRemove(tmp, TmpName(req[r]))
  /\ UNCHANGED <<variant, cacheDir, cache, clockStop>>


\* The worker answered with a success status and a JSON body:
\* timing.transcribeEnd, timing.total, the 200 answer.
CaptionSucceed(q, t) ==
  LET timing == [q.timing EXCEPT !.transcribeEnd = t,
                                 !.total = t - q.timing.start]
  IN [q EXCEPT !.timing = timing, !.resp = SuccessBody(q, timing),
               !.pc = "done"]

\* /caption: the worker answers in time with { caption }.
WhisperOk(r) ==
  /\ req[r].pc = "transcribe"
  /\ \E t \in Ticks(now) :
       /\ Put(r, CaptionSucceed(req[r], t))
       /\ now' = t
  /\ UNCHANGED <<variant, cacheDir, cache, tmp, lastFetch, clockStop>>

\* /caption: the worker answers in time with a non-success status.
WhisperNotOk(r) ==
  /\ req[r].pc = "transcribe"
  /\ Put(r, [Fail(req[r], "transcription", "notOk") EXCEPT
               !.resp = WhisperNotOkBody(req[r]), !.pc = "done"])
  /\ UNCHANGED <<variant, now, cacheDir, cache, tmp, lastFetch, clockStop>>

\* (mutant: a failed transcription removes the request's cache entry)
WhisperFailEvicts(r) ==
  /\ req[r].pc = "transcribe"
  /\ \E kind \in {"transport", "malformedBody"} : \E t \in Ticks(now) :
       /\ Put(r, CaptionCatch(Fail(req[r], "transcription", kind),
                              IF kind = "transport" THEN "TypeError"
                              ELSE "SyntaxError", t))
       /\ now' = t
  /\ cache' = [cache EXCEPT ![KeyOf(req[r])] = NoFile]
  /\ UNCHANGED <<variant, cacheDir, tmp, lastFetch, clockStop>>

\* /caption: the worker cannot be reached (fetch throws TypeError), or its
\* success answer is no JSON (json() throws SyntaxError).
WhisperFail(r) ==
  /\ req[r].pc = "transcribe"
  /\ \E kind \in {"transport", "malformedBody"} : \E t \in Ticks(now) :
       /\ Put(r, CaptionCatch(Fail(req[r], "transcription", kind),
                              IF kind = "transport" THEN "TypeError"
                              ELSE "SyntaxError", t))
       /\ now' = t
  /\ UNCHANGED <<variant, cacheDir, cache, tmp, lastFetch, clockStop>>

\* /caption: AbortSignal.timeout(120000) fires: 120000 ms have passed since
\* the call was made, and the fetch throws the signal's reason (named
\* TimeoutError, or AbortError on runtimes that report every abort so).
WhisperTimeout(r) ==
  /\ req[r].pc = "transcribe"
  /\ \E name \in {"TimeoutError", "AbortError"} :
       LET t == Max(now, req[r].timing.transcribeStart + TranscribeTimeoutMs)
       IN /\ Put(r, CaptionCatch(Fail(req[r], "transcription", "timeout"),
                                 name, t))
          /\ now' = t
  /\ UNCHANGED <<variant, cacheDir, cache, tmp, lastFetch, clockStop>>

\* /download: the redirect, or the 500 answer of its catch block.
DownloadRedirect(q, location) ==
  [q EXCEPT !.resp.status = 302, !.resp.location = location, !.pc = "done"]

DownloadCatch(q) ==
  [q EXCEPT !.resp.status = 500, !.resp.hasError = TRUE,
            !.resp.hasDetails = TRUE, !.pc = "done"]

\* /download: getVideoInfo resolves.  tikwm: the chosen URL, and a throw
\* into the catch block when there is none.  yt-dlp: c.redirect(info.url)
\* with no check of info.url.
DlInfoOk(r) ==
  /\ req[r].pc = "dlInfo"
  /\ \E info \in SUBSET InfoFields(variant) :
       LET q == [req[r] EXCEPT !.info = info]
           location == IF variant = "tikwm"
                       THEN ChooseRedirectUrl(info, q.hq)
                       ELSE YtDlpRedirectUrl(info)
       IN IF location = ""
          THEN Put(r, DownloadCatch(Fail(q, "metadata", "noUrl")))
          ELSE Put(r, DownloadRedirect(q, location))
  /\ UNCHANGED <<variant, now, cacheDir, cache, tmp, lastFetch, clockStop>>

\* /download: getVideoInfo throws.
DlInfoFail(r) ==
  /\ req[r].pc = "dlInfo"
  /\ Put(r, DownloadCatch(Fail(req[r], "metadata", "extraction")))
  /\ UNCHANGED <<variant, now, cacheDir, cache, tmp, lastFetch, clockStop>>

\* ----------------------------------------------------------- specification
Step(r) ==
  \/ StartCaption(r) \/ StartDownload(r)
  \/ MetadataOk(r) \/ MetadataFail(r)
  \/ InitCacheDirOk(r) \/ InitCacheDirFail(r)
  \/ CacheAccess(r) \/ CacheRead(r)
  \/ DmInfoOk(r) \/ DmInfoFail(r) \/ DmFetchOk(r) \/ DmFetchFail(r)
  \/ YtDlpExitOk(r) \/ YtDlpExitFail(r) \/ TmpRead(r)
  \/ CacheWriteOpen(r) \/ CacheWriteChunk(r) \/ TmpUnlink(r)
  \/ WhisperOk(r) \/ WhisperNotOk(r) \/ WhisperFail(r) \/ WhisperTimeout(r)
  \/ DlInfoOk(r) \/ DlInfoFail(r)

\* The first request of the process.
Solo == CHOOSE r \in Req : \A p \in Req : r <= p
Next == Step(Solo)

Spec == Init /\ [][Next]_vars

\* Calls of downloadMedia in sequence: valid /caption requests on an empty
\* cache, within one tick of the clock, each arriving when downloadMedia
\* has returned or thrown in the one before it.  A request is followed up
\* to the return of its downloadMedia; the duration of the video, which
\* downloadMedia never reads, is 30.
ValidBodies == { b \in Bodies : b.kind = "object" /\ ~InvalidUrl(b) }
StartValidCaption(r) ==
  CaptionArrives(r, ValidBodies, {FALSE}, {"done", "transcribe"})

InitSeq ==
  /\ variant \in Variants
  /\ now = T0
  /\ req = [r \in Req |-> InitReq]
  /\ cache = EmptyCache
  /\ cacheDir = FALSE
  /\ tmp = << >>
  /\ lastFetch = [f \in CacheFiles |-> NoPrev]
  /\ clockStop = T0

MetadataOkSeq(r) == MetadataResolves(r, {30})

StepSeq(r) ==
  \/ StartValidCaption(r)
  \/ MetadataOkSeq(r) \/ MetadataFail(r)
  \/ InitCacheDirOk(r) \/ InitCacheDirFail(r)
  \/ CacheAccess(r) \/ CacheRead(r)
  \/ DmInfoOk(r) \/ DmInfoFail(r) \/ DmFetchOk(r) \/ DmFetchFail(r)
  \/ YtDlpExitOk(r) \/ YtDlpExitFail(r) \/ TmpRead(r)
  \/ CacheWriteOpen(r) \/ CacheWriteChunk(r) \/ TmpUnlink(r)

NextSeq == \E r \in Req : StepSeq(r)

SpecSeq == InitSeq /\ [][NextSeq]_vars


\* One request whose transcription worker never answers: the worker's
\* answers are no steps of this specification, and the timer of
\* AbortSignal.timeout fires once it is due.
StepSilent(r) ==
  \/ StartCaption(r) \/ StartDownload(r)
  \/ MetadataOk(r) \/ MetadataFail(r)
  \/ InitCacheDirOk(r) \/ InitCacheDirFail(r)
  \/ CacheAccess(r) \/ CacheRead(r)
  \/ DmInfoOk(r) \/ DmInfoFail(r) \/ DmFetchOk(r) \/ DmFetchFail(r)
  \/ YtDlpExitOk(r) \/ YtDlpExitFail(r) \/ TmpRead(r)
  \/ CacheWriteOpen(r) \/ CacheWriteChunk(r) \/ TmpUnlink(r)
  \/ WhisperTimeout(r)
  \/ DlInfoOk(r) \/ DlInfoFail(r)

NextSilent == StepSilent(Solo)

SpecSilent == Init /\ [][NextSilent]_vars /\ WF_vars(WhisperTimeout(Solo))

\* Two /caption requests in flight at once: the handlers are async
\* functions of one event loop, so between two awaits of one request any
\* await of the other may resume.  Valid requests on an empty cache, within
\* one tick of the clock, each followed to the return of its downloadMedia.
Other == CHOOSE r \in Req \ {Solo} : \A p \in Req \ {Solo} : r <= p
Racers == {Solo, Other}

\* app.post('/caption') of a racer: validated, begins the metadata stage
\* while the other request is anywhere.
StartRace(r) ==
  /\ req[r].pc = "idle"
  /\ \A p \in Racers : p < r => req[p].pc # "idle"
  /\ \E body \in ValidBodies, audioOnly \in BOOLEAN :
       Put(r, CaptionBegin(Received(req[r], "caption", body),
                           audioOnly, FALSE, now, now))
  /\ UNCHANGED <<variant, now, cacheDir, cache, tmp, lastFetch, clockStop>>

StepConc(r) ==
  \/ StartRace(r)
  \/ MetadataOkSeq(r) \/ MetadataFail(r)
  \/ InitCacheDirOk(r) \/ InitCacheDirFail(r)
  \/ CacheAccess(r) \/ CacheRead(r)
  \/ DmInfoOk(r) \/ DmInfoFail(r) \/ DmFetchOk(r) \/ DmFetchFail(r)
  \/ YtDlpExitOk(r) \/ YtDlpExitFail(r) \/ TmpRead(r)
  \/ CacheWriteOpen(r) \/ CacheWriteChunk(r) \/ TmpUnlink(r)

NextConc == \E r \in Racers : StepConc(r)

SpecConc == InitSeq /\ [][NextConc]_vars

\* A /caption request and the next one, which arrives when the first is
\* answered: any body, on an empty cache, the clock standing still but for
\* the 120000 ms of a transcription timeout.
StartNext(r) ==
  /\ req[r].pc = "idle"
  /\ \A p \in Racers : p < r => req[p].pc = "done"
  /\ \E body \in Bodies, audioOnly \in BOOLEAN :
       LET q == Received(req[r], "caption", body)
       IN IF body.kind # "object" THEN Put(r, RespondUnhandled(q))
          ELSE IF InvalidUrl(body) THEN Put(r, RespondInvalid(q))
          ELSE Put(r, CaptionBegin(q, audioOnly, FALSE, now, now))
  /\ UNCHANGED <<variant, now, cacheDir, cache, tmp, lastFetch, clockStop>>

StepRetry(r) ==
  \/ StartNext(r)
  \/ MetadataOkSeq(r) \/ MetadataFail(r)
  \/ InitCacheDirOk(r) \/ InitCacheDirFail(r)
  \/ CacheAccess(r) \/ CacheRead(r)
  \/ DmInfoOk(r) \/ DmInfoFail(r) \/ DmFetchOk(r) \/ DmFetchFail(r)
  \/ YtDlpExitOk(r) \/ YtDlpExitFail(r) \/ TmpRead(r)
  \/ CacheWriteOpen(r) \/ CacheWriteChunk(r) \/ TmpUnlink(r)
  \/ WhisperOk(r) \/ WhisperNotOk(r) \/ WhisperFail(r) \/ WhisperTimeout(r)

NextRetry == \E r \in Racers : StepRetry(r)

SpecRetry == InitSeq /\ [][NextRetry]_vars

\* One request under the progress the code itself gives: the steps on the
\* local file system complete, and the timer of AbortSignal.timeout fires
\* when due.  Nothing bounds the answers of the extraction provider, of
\* the media download or of the spawned tool: their fetch and spawn calls
\* carry no signal and no timeout, so no fairness is assumed of them.
LocalStep(r) ==
  \/ InitCacheDirOk(r) \/ InitCacheDirFail(r)
  \/ CacheAccess(r) \/ CacheRead(r) \/ TmpRead(r)
  \/ CacheWriteOpen(r) \/ CacheWriteChunk(r) \/ TmpUnlink(r)

SpecFair ==
  /\ Init /\ [][Next]_vars
  /\ WF_vars(LocalStep(Solo))
  /\ WF_vars(WhisperTimeout(Solo))

\* ------------------------------------------------------------------ claims
Live == { r \in Req : req[r].pc \notin {"idle", "gone"} }
Answered == { r \in Req : req[r].pc = "done" }

\* the request got past validation
Validated(q) == q.calls.extract > 0

\* downloadMedia is over for the request, by a return or by a throw
LeftFetch(q) == q.fetched \/ (q.pc = "done" /\ q.failStage = "download")

NoCalls == [extract |-> 0, download |-> 0, whisper |-> 0, cache |-> 0]

\* C1: a request whose url is missing or does not match the pattern is
\* answered 400 with no outbound call and no cache access; a request whose
\* url matches gets past validation to the metadata stage.
C1_InvalidUrlRejected ==
  \A r \in Live :
    LET q == req[r]
    IN IF q.body # "url" \/ ~TIKTOK_URL_PATTERN(q.url)
       THEN q.pc = "done" /\ q.resp.status = 400 /\ q.calls = NoCalls
       ELSE Validated(q) /\ q.resp.status # 400

C4_TimeoutStatus ==
  \A r \in Answered :
    LET q == req[r]
    IN (q.endpoint = "caption" /\ Validated(q))
         => /\ q.resp.status = 408
                 <=> (q.failStage = "transcription" /\ q.failKind = "timeout")
            /\ (q.failStage # "none" /\ q.failKind # "timeout")
                 => q.resp.status = 500
            /\ q.failStage = "none" <=> q.resp.status = 200

C4_Witness ==
  \E r \in Answered :
    /\ req[r].resp.status = 408
    /\ req[r].failStage = "transcription" /\ req[r].failKind = "timeout"

C6_DebugOnEveryFailure ==
  \A r \in Answered :
    LET q == req[r]
    IN (q.endpoint = "caption" /\ q.debug
          /\ q.failStage \in {"metadata", "download", "transcription"})
         => q.resp.hasDebug /\ q.resp.failedAt = q.failStage

\* C7: the timestamps of a request answered 200 are in phase order.
C7_TimingMonotone ==
  \A r \in Answered :
    LET t == req[r].timing
    IN (req[r].endpoint = "caption" /\ req[r].resp.status = 200)
         => /\ t.start <= t.metadataStart
            /\ t.metadataStart <= t.metadataEnd
            /\ t.metadataEnd <= t.downloadStart
            /\ t.downloadStart <= t.downloadEnd
            /\ t.downloadEnd <= t.transcribeStart
            /\ t.transcribeStart <= t.transcribeEnd

C7_Witness ==
  \E r \in Answered :
    /\ req[r].endpoint = "caption" /\ req[r].resp.status = 200
    /\ req[r].timing.metadataEnd < req[r].timing.downloadStart

\* C8: in a 200 answer with debug, every derived metric is a defined,
\* finite value, also when a duration is zero.
C8_MetricsDefined ==
  \A r \in Answered :
    LET a == req[r].resp
    IN (req[r].endpoint = "caption" /\ a.status = 200 /\ a.hasDebug)
         => \A m \in {a.downloadSpeed, a.transcriptionSpeed, a.metadataFetch,
                      a.mediaDownload, a.transcription} : m.k = "finite"

\* the bytes are a whole download of the request's own url
OwnDownload(q) ==
  /\ Len(q.buffer) = 2
  /\ \A i \in 1..2 : q.buffer[i].u = getCacheKey(q.url)
  /\ q.buffer[1] = q.buffer[2]

\* C9: a failed cache write never fails the request: downloadMedia returns
\* the downloaded bytes with cached=false and the request calls the
\* transcription worker.
C9_WriteFailureSwallowed ==
  \A r \in Live :
    LET q == req[r]
    IN q.wrote = "failed"
         => \/ q.pc = "tmpUnlink"
            \/ /\ q.fetched /\ ~q.cached /\ OwnDownload(q)
               /\ q.calls.whisper = 1
               /\ q.failStage \in {"none", "transcription"}

C9_Witness ==
  \E r \in Live :
    /\ req[r].wrote = "failed" /\ req[r].fetched
    /\ req[r].pc = "done" /\ req[r].resp.status = 200

VideoCandidates == <<"hdplay", "play", "wmplay">>
Rank(c) == CHOOSE i \in 1..3 : VideoCandidates[i] = c

\* C10: the download URL is the audio URL in audio-only mode, else the
\* first of high-definition, standard, watermarked that exists; without it
\* downloadMedia throws before any download; a download answered with a
\* non-success status throws and leaves the cache as it was.
C10_DownloadUrlChoice ==
  \A r \in Live :
    LET q == req[r]
        video == { c \in q.info : c # "music" }
    IN /\ (q.pc = "dmFetch")
            => /\ q.calls.download = 1
               /\ q.downloadUrl \in q.info
               /\ q.audioOnly => q.downloadUrl = "music"
               /\ ~q.audioOnly
                    => /\ q.downloadUrl \in video
                       /\ \A c \in video : Rank(q.downloadUrl) <= Rank(c)
       /\ (q.endpoint = "caption" /\ q.failKind = "noUrl")
            => /\ q.calls.download = 0 /\ q.resp.status = 500
               /\ IF q.audioOnly THEN "music" \notin q.info ELSE video = {}
       /\ (q.failStage = "download" /\ q.failKind = "notOk")
            => /\ q.resp.status = 500 /\ q.wrote = "none"
               /\ cache[KeyOf(q)] = q.seen

C10_Witness ==
  \E r \in Live :
    /\ req[r].pc = "dmFetch" /\ ~req[r].audioOnly
    /\ req[r].downloadUrl = "play"
    /\ req[r].info = {"play", "wmplay", "music"}

\* C11: a /download request with a valid url ends in a redirect to a media
\* URL of the resolved metadata, or in a 500 answer with error and details
\* when the metadata cannot be resolved or holds no media URL; it makes no
\* cache access and never calls the transcription worker.
C11_DownloadFrame ==
  \A r \in Live :
    LET q == req[r]
    IN (q.endpoint = "download" /\ Validated(q))
         => /\ q.calls.cache = 0 /\ q.calls.whisper = 0 /\ q.calls.download = 0
            /\ q.calls.extract = 1
            /\ q.pc = "done"
                 => \/ /\ q.resp.status = 302 /\ q.failStage = "none"
                       /\ q.resp.location \in q.info
                       /\ ~q.resp.hasError
                    \/ /\ q.resp.status = 500 /\ q.failStage = "metadata"
                       /\ q.resp.hasError /\ q.resp.hasDetails
                       /\ q.resp.location = ""

\* The awaits of a request in program order.
PcRank(pc) ==
  CASE pc = "idle" -> 0
    [] pc \in {"metadata", "dlInfo"} -> 1
    [] pc = "initCache" -> 2
    [] pc = "cacheAccess" -> 3
    [] pc = "cacheRead" -> 4
    [] pc \in {"dmInfo", "ytdlp"} -> 5
    [] pc \in {"dmFetch", "tmpRead"} -> 6
    [] pc = "cacheWrite" -> 7
    [] pc = "cacheWriting" -> 8
    [] pc = "tmpUnlink" -> 9
    [] pc = "transcribe" -> 10
    [] pc = "done" -> 11
    [] OTHER -> 12

InFetchStage(pc) == PcRank(pc) \in 2..9

\* C12: in every step of a /caption request the position moves forward in
\* the order validate, metadata, media fetch, transcription (no await is
\* entered twice, the chunk loop of writeFile apart); a call of the fetch
\* stage is made only when the metadata was resolved, the worker is called
\* only when downloadMedia returned, and once; after a failure of a stage
\* no call of a later stage has been made.
C12_StagesInOrder ==
  [][\A r \in Req :
       LET q == req[r]
           n == req'[r]
       IN (n.endpoint = "caption" /\ n # q /\ n.pc # "gone")
            => /\ \/ PcRank(n.pc) > PcRank(q.pc)
                  \/ /\ q.pc = "cacheWriting" /\ n.pc = "cacheWriting"
                     /\ n.wpos > q.wpos
               /\ (n.calls.cache > q.calls.cache
                     \/ n.calls.download > q.calls.download
                     \/ InFetchStage(n.pc))
                    => n.timing.metadataEnd > 0 /\ q.calls.whisper = 0
               /\ n.calls.whisper > q.calls.whisper
                    => /\ InFetchStage(q.pc) /\ n.fetched
                       /\ n.pc = "transcribe" /\ n.calls.whisper = 1
               /\ n.calls.download <= 1
               /\ (n.pc = "done" /\ n.failStage = "metadata")
                    => /\ n.calls.download = 0 /\ n.calls.cache = 0
                       /\ n.calls.whisper = 0 /\ n.calls.extract = 1
               /\ (n.pc = "done" /\ n.failStage = "download")
                    => n.calls.whisper = 0 /\ ~n.fetched]_vars

C12_Witness ==
  \E r \in Answered :
    /\ req[r].endpoint = "caption" /\ req[r].failStage = "download"
    /\ req[r].calls.download = 1 /\ req[r].calls.whisper = 0
    /\ req[r].timing.metadataEnd > 0

\* C13: a validated /caption request has made exactly one metadata call to
\* the extraction provider, on a cache hit as on a miss: the metadata is
\* asked for even when the bytes are cached, and the fetch stage asks no
\* second time.
C13_SingleExtractionCall ==
  \A r \in Live :
    LET q == req[r]
    IN (q.endpoint = "caption" /\ Validated(q)) => q.calls.extract = 1

\* the request took the miss path and its download was made
Downloaded(q) == q.endpoint = "caption" /\ q.calls.download = 1

\* the request's writeFile is over and wrote all its bytes
WriteDone(q) == q.wrote = "ok" /\ q.pc \notin {"cacheWrite", "cacheWriting"}

\* C14: two requests for the same url and mode that both download: each
\* one that returns from downloadMedia returns cached=false and the whole
\* bytes of a download of its url, and when both writes are over the cache
\* entry holds the bytes of one of the two downloads, never a mixture.
C14_LastWriterWins ==
  \A r1 \in Live, r2 \in Live :
    LET a == req[r1]
        b == req[r2]
    IN (r1 # r2 /\ Downloaded(a) /\ Downloaded(b) /\ KeyOf(a) = KeyOf(b))
         => /\ a.fetched => ~a.cached /\ OwnDownload(a)
            /\ (WriteDone(a) /\ WriteDone(b))
                 => /\ cache[KeyOf(a)].exists
                    /\ cache[KeyOf(a)].data \in {a.buffer, b.buffer}

\* a writeFile on the cache file is under way
BeingWritten(f) ==
  \E r \in Req : req[r].pc = "cacheWriting" /\ KeyOf(req[r]) = f

\* C15: once an entry has been written (it exists and no write of it is
\* under way), no step of any request removes it or changes its bytes.
C15_CacheAppendOnly ==
  [][\A f \in CacheFiles :
       (cache[f].exists /\ ~BeingWritten(f)) => cache'[f] = cache[f]]_vars

\* the extension of the mode a chunk was downloaded in
ModeOfKind(kind) == IF kind \in {"music", "audio"} THEN "mp3" ELSE "mp4"

\* the chunk is of a download made in the mode of the cache file f
OfMode(c, f) == ModeOfKind(c.kind) = f[2]

\* two (url, mode) pairs share a cache file exactly when they are the same
OneFilePerUrlAndMode ==
  \A u1 \in UrlInputs, u2 \in UrlInputs, a1 \in BOOLEAN, a2 \in BOOLEAN :
    CachedFile(u1, a1) = CachedFile(u2, a2) <=> (u1 = u2 /\ a1 = a2)

\* C16: the cache file is a function of the raw url string and the mode
\* only: two (url, mode) pairs share a file exactly when they are the same
\* pair (no normalisation of the url; one entry per mode); every byte of
\* an entry was downloaded in the entry's own mode, and the bytes a request
\* finds at its check and returns on a hit are of the request's own mode.
C16_KeyDeterminism ==
  /\ OneFilePerUrlAndMode
  /\ \A f \in CacheFiles : \A i \in 1..Len(cache[f].data) :
       OfMode(cache[f].data[i], f)
  /\ \A r \in Live :
       /\ \A i \in 1..Len(req[r].seen.data) :
            OfMode(req[r].seen.data[i], KeyOf(req[r]))
       /\ req[r].cached
            => \A i \in 1..Len(req[r].buffer) :
                 OfMode(req[r].buffer[i], KeyOf(req[r]))

C16_Witness ==
  \E u \in ValidUrls :
    /\ Len(cache[CachedFile(u, TRUE)].data) = 2
    /\ Len(cache[CachedFile(u, FALSE)].data) = 2
    /\ cache[CachedFile(u, TRUE)].data # cache[CachedFile(u, FALSE)].data

\* downloadMedia went on to the download after its cache check
TookMissPath(q) == PcRank(q.pc) \in 5..9 \/ q.calls.download > 0

\* C17: downloadMedia goes on as a miss only when the cache file does not
\* exist; an I/O error of the existence check or of the read of an
\* existing entry fails the request instead.
C17_ReadErrorSurfaced ==
  \A r \in Live :
    LET q == req[r]
    IN /\ TookMissPath(q) => ~q.seen.exists
       /\ q.checkErr # "none"
            => /\ q.pc = "done" /\ q.failStage = "download"
               /\ q.resp.status = 500 /\ q.calls.download = 0

\* the timing fields in phase order
TimingFields(t) ==
  <<t.start, t.metadataStart, t.metadataEnd, t.downloadStart, t.downloadEnd,
    t.transcribeStart, t.transcribeEnd>>

\* how many of them the request has recorded where it stands
Recorded(q) ==
  IF q.pc = "done" /\ q.failStage = "none" THEN 7
  ELSE IF q.pc = "transcribe" \/ q.failStage = "transcription" THEN 6
  ELSE IF InFetchStage(q.pc) \/ q.failStage = "download" THEN 4
  ELSE 2

\* the request ended in the catch block, which computed partialTiming at
\* errorTime = now
Caught(q) ==
  /\ q.endpoint = "caption" /\ q.pc = "done"
  /\ q.failStage \in {"metadata", "download", "transcription"}
  /\ q.failKind # "notOk"

\* The timing record: the fields of a phase not reached are 0, the recorded
\* ones are positive and non-decreasing in phase order, and the partial
\* durations are non-negative.
TimingConsistent(q) ==
  LET f == TimingFields(q.timing)
      p == PartialTiming(q.timing, now)
  IN /\ \A i \in 1..7 : f[i] > 0 <=> i <= Recorded(q)
     /\ \A i \in 1..7, j \in 1..7 : (i < j /\ j <= Recorded(q)) => f[i] <= f[j]
     /\ Caught(q)
          => /\ p.total >= 0 /\ p.metadata >= 0
             /\ p.download >= 0 /\ p.transcription >= 0
             /\ q.resp.hasDebug => q.resp.times = p

C19_ErrorDetails ==
  \A r \in Answered :
    LET q == req[r]
    IN (Validated(q) /\ q.failStage # "none")
         => /\ q.resp.status \in {408, 500}
            /\ q.resp.hasError
            /\ q.resp.status = 500 => q.resp.hasDetails

\* ((n / d) * 100).toFixed(1) of a finite quotient, in tenths of a percent:
\* the nearest tenth (for the non-negative quotients of the breakdown)
PercentTenths(m) == (2000 * m.n + m.d) \div (2 * m.d)

\* C20: in a 200 answer with debug the four durations are non-negative,
\* the three phase durations add up to at most the total, and the three
\* percentages of the breakdown are numbers whose sum does not exceed 100.
C20_BreakdownWithin100 ==
  \A r \in Answered :
    LET a == req[r].resp
    IN (req[r].endpoint = "caption" /\ a.status = 200 /\ a.hasDebug)
         => /\ a.times.total >= 0 /\ a.times.metadata >= 0
            /\ a.times.download >= 0 /\ a.times.transcription >= 0
            /\ a.times.metadata + a.times.download + a.times.transcription
                 <= a.times.total
            /\ \A m \in {a.metadataFetch, a.mediaDownload, a.transcription} :
                 m.k = "finite"
            /\ PercentTenths(a.metadataFetch) + PercentTenths(a.mediaDownload)
                 + PercentTenths(a.transcription) <= 1000

\* the chunk is a byte of a download of the url and mode of cache file f
\* (a hole left by an interleaved write is nobody's download)
OfFile(c, f) == c = Hole \/ (c.u = f[1] /\ OfMode(c, f))

\* C21: in the yt-dlp build, however the requests in flight interleave, the
\* bytes downloadMedia returns to a request and the bytes stored under a
\* cache file are of a download made for that url and mode, never of
\* another request's download.
C21_OwnBytesOnly ==
  variant = "ytdlp"
    => /\ \A r \in Live :
            req[r].fetched
              => \A i \in 1..Len(req[r].buffer) :
                   OfFile(req[r].buffer[i], KeyOf(req[r]))
       /\ \A f \in CacheFiles : \A i \in 1..Len(cache[f].data) :
            OfFile(cache[f].data[i], f)

\* the bytes are one whole download: both chunks, of one version
Complete(bytes) ==
  Len(bytes) = 2 /\ bytes[1] = bytes[2] /\ bytes[1] # Hole

\* C22: a request whose readFile of the cache file returns while another
\* request's writeFile of the same file is under way returns, as a hit,
\* the bytes of a whole download, never an empty or a partly written file.
C22_NoPartialHit ==
  [][\A r \in Req :
       (/\ req[r].pc = "cacheRead" /\ req'[r].fetched /\ req'[r].cached
        /\ BeingWritten(KeyOf(req[r])))
         => Complete(req'[r].buffer)]_vars

\* the request was answered without getting past the media download
FailedEarly(q) ==
  /\ q.endpoint = "caption" /\ q.pc = "done"
  /\ \/ q.resp.status = 400
     \/ q.failStage \in {"parse", "metadata", "download"}

\* the request missed, downloaded, wrote its bytes to the cache and then
\* failed in the transcription stage
FailedAfterStore(q) ==
  /\ q.endpoint = "caption" /\ q.pc = "done"
  /\ q.failStage = "transcription"
  /\ q.fetched /\ ~q.cached /\ q.wrote = "ok"

\* In every step: a cache file changes only under the writeFile of a
\* request for that file, and a request that fails in validation, metadata
\* or download fails from a position before its writeFile, in a step that
\* leaves the cache as it is.
FailureLeavesCache ==
  /\ \A f \in CacheFiles :
       cache'[f] # cache[f]
         => \E r \in Req : /\ req[r].pc \in {"cacheWrite", "cacheWriting"}
                          /\ KeyOf(req[r]) = f
  /\ \A r \in Req :
       (req'[r] # req[r] /\ FailedEarly(req'[r]))
         => /\ PcRank(req[r].pc) < PcRank("cacheWrite")
            /\ req'[r].wrote = "none"
            /\ cache' = cache

\* The request after one that failed in transcription with its bytes
\* stored, for the same url and mode, once its downloadMedia is over.
NextServedFromCache(a, b) ==
  /\ b.fetched /\ b.cached
  /\ b.buffer = a.buffer
  /\ b.calls.download = 0

C24_EventuallyAnswered ==
  (req[Solo].endpoint = "caption" /\ Validated(req[Solo]))
    ~> (req[Solo].pc = "done" /\ req[Solo].resp.status \in {200, 408, 500})

====
